---- MODULE Spec2Model ----
(***************************************************************************)
(* vs-deinterlace: the Wobbly project parser (WobblyParsed.__init__), the  *)
(* replay entry point (WobblyParsed.apply) with its freeze-frame,          *)
(* frame-rate and combed-marker steps, the metrics driver (Wibbly) and     *)
(* get_timecodes, modelled from src/vsdeinterlace/wobbly/{wobbly,base,     *)
(* info,types,wibbly}.py and src/vsdeinterlace/vfr.py.                     *)
(*                                                                         *)
(* Frame numbers are 0-based as in the source; a clip is a sequence whose  *)
(* element n + 1 is frame n.                                               *)
(***************************************************************************)
EXTENDS Integers, Sequences, FiniteSets, TLC

VARIABLES
    file,             \* self._wob_data: the JSON object of the project file
    pc,               \* position inside __init__ / apply
    err,              \* the exception that ended the operation under way
    cycle,            \* self.vdecimate_params.cycle
    vfm_order,        \* self.vfm_params.order (a bool after __post_init__)
    field_order,      \* self.field_order (FieldBased value)
    matches,          \* self.matches
    combed_frames,    \* self.combed_frames
    decimations,      \* self.decimations
    sections,         \* self.sections
    interlaced_fades, \* self.interlaced_fades
    freeze_frames,    \* self.freeze_frames
    orphan_frames,    \* self.orphan_frames (the attribute may not exist)
    orphan_handling,  \* apply's orphan_handling argument
    orphan_proc,      \* apply's local orphan_proc
    wclip,            \* apply's local wclip
    steps,            \* the pipeline steps apply has performed, in order
    calls,            \* the orphan_handling arguments of the apply calls made
    fz_clip,          \* _apply_freezeframes: the clip argument
    fz_freezes,       \* _apply_freezeframes: the freezes argument
    fz_once,          \* result of the freeze-frame step
    fz_twice,         \* result of the freeze-frame step applied to fz_once
    fz_pc,            \* position of the freeze-frame replay
    st_clip,          \* the clip that enters one marking step of apply
    st_out,           \* the clip that leaves that step
    tc_clip,          \* get_timecodes: num_frames and fps_den of the clip
    tc_den,           \* get_timecodes: the den argument (0 for None)
    tc_file,          \* get_timecodes: the timecode file
    tc_norm,          \* get_timecodes: the local norm_timecodes
    tc_out,           \* get_timecodes: the list returned
    tc_pc,            \* position of the get_timecodes call
    wb_clip,          \* Wibbly: the frame properties of the metrics clip
    wb_n,             \* Wibbly: the frame numbers handed to _cb so far, in order
    wb_metrics,       \* Wibbly: the lists _render_metrics collects
    wb_file,          \* Wibbly: the project file written
    wb_pc,            \* position of Wibbly.process
    cp_combed,        \* check_patterns: the combed frames found, by pattern
    cp_n,             \* check_patterns: position of the loop in the patterns tried
    cp_pattern,       \* check_patterns: the local pattern
    cp_pc,            \* position of the check_patterns call
    db_num_frames,    \* deblend: clip.num_frames
    db_start,         \* deblend: the start argument
    db_rep,           \* deblend: the rep argument (0 for None)
    db_decimate,      \* deblend: the decimate argument
    db_n,             \* deblend: the next frame of the FrameEval clip
    db_out,           \* deblend: the frames of the returned clip produced so far
    db_pc,            \* position of the rendering of deblend's clip
    nt_t,             \* normalize_timecodes: the timecodes argument
    nt_ranges,        \* the dict normalize_timecodes returned
    nt_back,          \* the list normalize_range_timecodes returned
    nt_pc             \* position of the conversion there and back

vars == <<file, pc, err, cycle, vfm_order, field_order, matches, combed_frames,
          decimations, sections, interlaced_fades, freeze_frames, orphan_frames,
          orphan_handling, orphan_proc, wclip, steps, calls,
          fz_clip, fz_freezes, fz_once, fz_twice, fz_pc,
          st_clip, st_out,
          tc_clip, tc_den, tc_file, tc_norm, tc_out, tc_pc,
          wb_clip, wb_n, wb_metrics, wb_file, wb_pc,
          cp_combed, cp_n, cp_pattern, cp_pc,
          db_num_frames, db_start, db_rep, db_decimate, db_n, db_out, db_pc,
          nt_t, nt_ranges, nt_back, nt_pc>>

modelVars == <<cycle, vfm_order, field_order, matches, combed_frames,
               decimations, sections, interlaced_fades, freeze_frames,
               orphan_frames>>

applyVars == <<orphan_handling, orphan_proc, wclip, steps, calls>>

fzVars == <<fz_clip, fz_freezes, fz_once, fz_twice, fz_pc>>

stVars == <<st_clip, st_out>>

tcVars == <<tc_clip, tc_den, tc_file, tc_norm, tc_out, tc_pc>>

wbVars == <<wb_clip, wb_n, wb_metrics, wb_file, wb_pc>>

cpVars == <<cp_combed, cp_n, cp_pattern, cp_pc>>

dbVars == <<db_num_frames, db_start, db_rep, db_decimate, db_n, db_out, db_pc>>

ntVars == <<nt_t, nt_ranges, nt_back, nt_pc>>

fnVars == <<cpVars, dbVars, ntVars>>

\* The variables of the steps that are replayed on their own.
stepVars == <<stVars, tcVars, wbVars, fnVars>>

(***************************************************************************)
(* Bounds                                                                  *)
(***************************************************************************)
MaxMatches == 3      \* longest match sequence of a project file
MaxMissing == 2      \* most top-level keys a project file lacks
MaxFrames == 3       \* longest clip handed to the freeze-frame step
MaxFreezes == 2      \* most FreezeFrame objects handed to the freeze-frame step
MaxStamps == 3       \* most timestamps of a v2 timecode file
MaxRanges == 2       \* most range lines of a v1 timecode file
MaxRender == 2       \* longest clip the metrics driver renders
MaxRateFrames == 7   \* longest clip handed to the frame-rate step
MaxDecimated == 2    \* most decimated frames drawn freely
MaxOrphans == 2      \* most orphans handed to the deinterlacing step
MaxCalls == 2        \* most apply calls made on one parsed model
MaxChecked == 2      \* most frames rendered by one pattern check
MaxDeblend == 8      \* longest clip handed to deblend
MaxStart == 5        \* largest start handed to deblend
MaxTimecodes == 6    \* longest list of rates converted to ranges and back

Range(s) == {s[i] : i \in 1..Len(s)}

SeqsUpTo(S, n) == UNION {[1..k -> S] : k \in 0..n}

RECURSIVE SetsUpTo(_, _)
SetsUpTo(S, n) ==
    IF n = 0 THEN {{}}
    ELSE LET P == SetsUpTo(S, n - 1) IN P \cup {p \cup {x} : p \in P, x \in S}

(***************************************************************************)
(* Python values                                                           *)
(***************************************************************************)
\* A str element of the match sequence, and a typing.Literal[...] object:
\* the two never compare equal.
Str(ch) == <<"str", ch>>

Literal(ch) == <<"Literal", ch>>

\* types.py: Match = Literal['b'] | Literal['c'] | Literal['n'] | Literal['p'] | Literal['u'];
\* Match.__args__ is the tuple of the five Literal objects.
Match_args == {Literal("b"), Literal("c"), Literal("n"), Literal("p"), Literal("u")}

\* types.py: OrphanMatch.
OrphanMatch_args == {Literal("b"), Literal("n"), Literal("p"), Literal("u")}

NoError == [kind |-> "none", key |-> "", chars |-> {}, at |-> ""]

Raise(kind) == [kind |-> kind, key |-> "", chars |-> {}, at |-> ""]

\* The exception e, raised by the statement at position p.
At(e, p) == IF e.kind = "none" THEN e ELSE [e EXCEPT !.at = p]

\* vstools FieldBased: PROGRESSIVE = 0, BFF = 1, TFF = 2.
PROGRESSIVE == 0

BFF == 1

TFF == 2

\* FieldBased.from_param: a bool selects TFF/BFF, an int is the enum value.
FieldBased_from_bool(b) == IF b THEN TFF ELSE BFF

FieldBased_from_int(v) == v

is_inter(fb) == fb # PROGRESSIVE

(***************************************************************************)
(* The project file                                                        *)
(***************************************************************************)
EmptyDict == [k \in {} |-> 0]

Without(f, ks) == [k \in DOMAIN f \ ks |-> f[k]]

With(f, k, v) == [j \in DOMAIN f \cup {k} |-> IF j = k THEN v ELSE f[j]]

TopLevelKeys == {"input file", "source filter", "vfm parameters",
                 "vdecimate parameters", "matches", "combed frames",
                 "decimated frames", "sections", "interlaced fades",
                 "frozen frames"}

MatchChars == {"c", "n", "x"}

CycleValues == {4, 5, 6}

FadeRecord(f, d) == ("frame" :> f) @@ ("field difference" :> d)

BaseFile ==
    ("input file" :> "a.mkv") @@
    ("source filter" :> "lsmas.LWLibavSource") @@
    ("vfm parameters" :> ("order" :> 1)) @@
    ("vdecimate parameters" :> ("cycle" :> 5)) @@
    ("matches" :> <<"c", "c">>) @@
    ("combed frames" :> <<>>) @@
    ("decimated frames" :> <<>>) @@
    ("sections" :> <<>>) @@
    ("interlaced fades" :> <<>>) @@
    ("frozen frames" :> <<>>)

\* Files that lack keys, with every cycle and source filter.
KeyFiles ==
    { Without(With(With(BaseFile, "vdecimate parameters", vd),
                   "source filter", sf), missing) :
        missing \in SetsUpTo(TopLevelKeys, MaxMissing),
        vd \in {EmptyDict} \cup {("cycle" :> c) : c \in CycleValues},
        sf \in {"lsmas.LWLibavSource", "foo.Bar"} }

\* Files with every match sequence and every list of section starts.
MatchFiles ==
    { With(With(With(BaseFile, "matches", m), "sections", s),
           "vfm parameters", vf) :
        m \in SeqsUpTo(MatchChars, MaxMatches),
        s \in SeqsUpTo(0..MaxMatches, 2),
        vf \in {EmptyDict, ("order" :> 0), ("order" :> 1)} }

\* Files that parse, with decimations, combed frames, fades and freezes.
ReplayFiles ==
    { With(With(With(With(With(BaseFile,
        "matches", [i \in 1..n |-> "c"]),
        "decimated frames", d), "combed frames", c),
        "interlaced fades", f), "frozen frames", z) :
        n \in 1..MaxMatches,
        d \in {<<>>, <<0>>, <<1>>, <<0, 1>>, <<1, 0>>},
        c \in {<<>>, <<1>>, <<0, 1>>},
        f \in {<<>>, <<FadeRecord(1, 0 - 2)>>, <<("frame" :> 0 - 1)>>},
        z \in {<<>>, <<<<0, 1, 0>>>>, <<<<1, 0, 0>>>>} }

Files == KeyFiles \cup MatchFiles \cup ReplayFiles

(***************************************************************************)
(* WobblyParsed.__init__                                                   *)
(***************************************************************************)
\* __get_val with no fallback: the key must be present.
get_val_raises(f, key) == key \notin DOMAIN f

\* __get_val(key, fallback)
get_val(f, key, fallback) == IF key \in DOMAIN f THEN f[key] ELSE fallback

\* dict.get(key, default)
dict_get(d, key, default) == IF key \in DOMAIN d THEN d[key] ELSE default

\* A __get_val whose message does not name the key.
MissingValue_unnamed(key) == [kind |-> "CustomValueError", key |-> "", chars |-> {}, at |-> ""]

\* lines 208-209: the error raised for an absent key
MissingValue(key) == [kind |-> "CustomValueError", key |-> key, chars |-> {}, at |-> ""]

\* WobblyVideo.__post_init__: getattr(core, ...) along the dotted name.
SourceFilterResolves(name) == name = "lsmas.LWLibavSource"

\* lines 90-95: self.work_clip = WobblyVideo(...)
WorkClipError(f) ==
    IF get_val_raises(f, "input file") THEN MissingValue("input file")
    ELSE IF get_val_raises(f, "source filter") THEN MissingValue("source filter")
    ELSE IF ~SourceFilterResolves(f["source filter"]) THEN Raise("AttributeError")
    ELSE NoError

ParseWorkClip ==
    /\ pc = "init.work_clip"
    /\ LET e == WorkClipError(file)
       IN  /\ err' = At(e, pc)
           /\ pc' = IF e = NoError THEN "init.params" ELSE "failed"
    /\ UNCHANGED <<file, modelVars, applyVars, fzVars, stepVars>>

\* VfmParams: order defaults to True; __post_init__ turns it into
\* bool(int(FieldBased.from_param(order)) - 1).
VfmParams_order(block) ==
    IF "order" \in DOMAIN block
    THEN FieldBased_from_int(block["order"]) - 1 # 0
    ELSE FieldBased_from_bool(TRUE) - 1 # 0

\* VDecParams: cycle defaults to 5.
VDecParams_cycle(block) == dict_get(block, "cycle", 5)

\* A cycle check that only rejects short cycles.
CycleSupported_atleast(c) == c >= 5

\* line 106: the only supported cycle.
CycleSupported(c) == c = 5

\* lines 97-107
ParseParams ==
    /\ pc = "init.params"
    /\ vfm_order' = VfmParams_order(get_val(file, "vfm parameters", EmptyDict))
    /\ cycle' = VDecParams_cycle(get_val(file, "vdecimate parameters", EmptyDict))
    /\ IF CycleSupported(cycle')
       THEN pc' = "init.field_order" /\ err' = err
       ELSE pc' = "failed" /\ err' = At(Raise("InvalidCycleError"), pc)
    /\ UNCHANGED <<file, field_order, matches, combed_frames, decimations,
                   sections, interlaced_fades, freeze_frames, orphan_frames,
                   applyVars, fzVars, stepVars>>

\* lines 109-112
ParseFieldOrder ==
    /\ pc = "init.field_order"
    /\ field_order' = FieldBased_from_int((IF vfm_order THEN 1 ELSE 0) + 1)
    /\ IF is_inter(field_order')
       THEN pc' = "init.matches" /\ err' = err
       ELSE pc' = "failed" /\ err' = At(Raise("UnsupportedFieldBasedError"), pc)
    /\ UNCHANGED <<file, cycle, vfm_order, matches, combed_frames, decimations,
                   sections, interlaced_fades, freeze_frames, orphan_frames,
                   applyVars, fzVars, stepVars>>

\* line 118: set(self.matches) - {*Match.__args__}
illegal_chars(m) == {Str(ch) : ch \in Range(m)} \ Match_args

\* line 118: the condition under which InvalidMatchError is raised.
InvalidMatchRaised(m) == ~(Cardinality(illegal_chars(m)) # 0)

\* lines 114-119
ParseMatches ==
    /\ pc = "init.matches"
    /\ matches' = get_val(file, "matches", <<>>)
    /\ combed_frames' = Range(get_val(file, "combed frames", <<>>))
    /\ decimations' = get_val(file, "decimated frames", <<>>)
    /\ IF InvalidMatchRaised(matches')
       THEN /\ pc' = "failed"
            /\ err' = [kind |-> "InvalidMatchError", key |-> "",
                       chars |-> {c[2] : c \in illegal_chars(matches')},
                       at |-> pc]
       ELSE pc' = "init.sections" /\ err' = err
    /\ UNCHANGED <<file, cycle, vfm_order, field_order, sections,
                   interlaced_fades, freeze_frames, orphan_frames,
                   applyVars, fzVars, stepVars>>

\* lines 238-242: the Section the comprehension builds for entry i (1-based here).
section_end(data, i, n) == IF i < Len(data) THEN data[i + 1] - 1 ELSE n - 1

SectionOf(data, i, n) ==
    [start_frame |-> data[i], end_frame |-> section_end(data, i, n)]

\* info.py _HoldsStartEndFrames.__post_init__
StartEndRaises(s) == s.start_frame > s.end_frame

\* info.py: Section is a dataclass with eq and without unsafe_hash or frozen,
\* so its __hash__ is None and it cannot be put in a set.
SectionHashable == FALSE

\* lines 232-244: the set comprehension builds Section 1, hashes it, builds
\* Section 2, ... and stops at the first exception.
set_sections(data, n) ==
    LET bad == {i \in 1..Len(data) :
                    StartEndRaises(SectionOf(data, i, n)) \/ ~SectionHashable}
        first == CHOOSE i \in bad : \A j \in bad : i <= j
    IN  IF bad = {}
        THEN [err |-> NoError,
              val |-> {SectionOf(data, i, n) : i \in 1..Len(data)}]
        ELSE IF StartEndRaises(SectionOf(data, first, n))
        THEN [err |-> Raise("CustomValueError"), val |-> {}]
        ELSE [err |-> Raise("TypeError"), val |-> {}]

\* line 121
ParseSections ==
    /\ pc = "init.sections"
    /\ LET r == set_sections(get_val(file, "sections", <<0>>), Len(matches))
       IN  /\ sections' = r.val
           /\ err' = At(r.err, pc)
           /\ pc' = IF r.err = NoError THEN "init.interlaced_fades" ELSE "failed"
    /\ UNCHANGED <<file, cycle, vfm_order, field_order, matches, combed_frames,
                   decimations, interlaced_fades, freeze_frames, orphan_frames,
                   applyVars, fzVars, stepVars>>

Abs(x) == IF x < 0 THEN 0 - x ELSE x

\* lines 252-255 and info.py InterlacedFade.__post_init__: the record read
\* from one entry of the file.
InterlacedFadeOf(ifade) ==
    [framenum |-> dict_get(ifade, "frame", 0 - 1),
     field_difference |-> Abs(dict_get(ifade, "field_difference", 0))]

\* info.py _HoldsFrameNum.__post_init__
FrameNumRaises(o) == o.framenum < 0

\* lines 246-257
set_interlaced_fades(data) ==
    IF \E i \in 1..Len(data) : FrameNumRaises(InterlacedFadeOf(data[i]))
    THEN [err |-> Raise("CustomValueError"), val |-> {}]
    ELSE [err |-> NoError, val |-> {InterlacedFadeOf(data[i]) : i \in 1..Len(data)}]

\* line 122
ParseInterlacedFades ==
    /\ pc = "init.interlaced_fades"
    /\ LET r == set_interlaced_fades(get_val(file, "interlaced fades", <<EmptyDict>>))
       IN  /\ interlaced_fades' = r.val
           /\ err' = At(r.err, pc)
           /\ pc' = IF r.err = NoError THEN "init.freeze_frames" ELSE "failed"
    /\ UNCHANGED <<file, cycle, vfm_order, field_order, matches, combed_frames,
                   decimations, sections, freeze_frames, orphan_frames,
                   applyVars, fzVars, stepVars>>

\* info.py FreezeFrame(start_frame, end_frame, replacement)
FreezeFrameOf(t) == [start_frame |-> t[1], end_frame |-> t[2], replacement |-> t[3]]

\* lines 259-265
set_freeze_frames(data) ==
    IF \E i \in 1..Len(data) : StartEndRaises(FreezeFrameOf(data[i]))
    THEN [err |-> Raise("CustomValueError"), val |-> {}]
    ELSE [err |-> NoError, val |-> {FreezeFrameOf(data[i]) : i \in 1..Len(data)}]

\* line 123
ParseFreezeFrames ==
    /\ pc = "init.freeze_frames"
    /\ LET r == set_freeze_frames(get_val(file, "frozen frames", <<>>))
       IN  /\ freeze_frames' = r.val
           /\ err' = At(r.err, pc)
           /\ pc' = IF r.err = NoError THEN "init.orphan_frames" ELSE "failed"
    /\ UNCHANGED <<file, cycle, vfm_order, field_order, matches, combed_frames,
                   decimations, sections, interlaced_fades, orphan_frames,
                   applyVars, fzVars, stepVars>>

\* lines 271-287, one section: matches[frame_num] raises IndexError past the
\* end; self.orphan_frames.add raises AttributeError because the attribute
\* (a dataclass field with a default_factory, never assigned by __init__)
\* does not exist.
SectionOrphanError(s, m, of) ==
    IF s.start_frame >= Len(m) THEN Raise("CustomIndexError")
    ELSE IF m[s.start_frame + 1] \in {"n", "p"} /\ ~of.exists THEN Raise("AttributeError")
    ELSE IF s.end_frame >= Len(m) THEN Raise("CustomIndexError")
    ELSE IF m[s.end_frame + 1] \in {"b", "u"} /\ ~of.exists THEN Raise("AttributeError")
    ELSE NoError

\* line 124: the sections are visited in set order; the first one that
\* raises ends __init__.
ParseOrphanFrames ==
    /\ pc = "init.orphan_frames"
    /\ LET errs == {SectionOrphanError(s, matches, orphan_frames) : s \in sections}
                        \ {NoError}
       IN  IF errs = {}
           THEN pc' = "init.remove_ifades" /\ err' = err
           ELSE pc' = "failed" /\ err' \in {At(e, pc) : e \in errs}
    /\ UNCHANGED <<file, modelVars, applyVars, fzVars, stepVars>>

\* A sanitizing step that leaves the combed frames as they are.
remove_ifades_from_combed_kept(combed, ifades) == combed

\* lines 289-293
remove_ifades_from_combed(combed, ifades) ==
    IF ifades # {} THEN combed \ {i.framenum : i \in ifades} ELSE combed

\* line 127
ParseRemoveIfades ==
    /\ pc = "init.remove_ifades"
    /\ combed_frames' = remove_ifades_from_combed(combed_frames, interlaced_fades)
    /\ pc' = "parsed"
    /\ UNCHANGED <<file, err, cycle, vfm_order, field_order, matches,
                   decimations, sections, interlaced_fades, freeze_frames,
                   orphan_frames, applyVars, fzVars, stepVars>>

(***************************************************************************)
(* WobblyParsed.apply                                                      *)
(***************************************************************************)
\* The orphan_handling arguments tried: a bool, or a str / sequence of tags.
BoolArg(b) == [is_bool |-> TRUE, b |-> b, tags |-> <<>>]

TagsArg(t) == [is_bool |-> FALSE, b |-> FALSE, tags |-> t]

OrphanHandlingArgs ==
    {BoolArg(FALSE), BoolArg(TRUE), TagsArg(<<>>), TagsArg(<<"n">>),
     TagsArg(<<"x">>), TagsArg(<<"n", "x">>)}

\* Python truthiness of the argument.
Truthy(process) == IF process.is_bool THEN process.b ELSE process.tags # <<>>

\* lines 312-332
get_orphans_to_process(process, of) ==
    IF ~Truthy(process) THEN [err |-> NoError, val |-> {}]
    ELSE IF ~process.is_bool
            /\ ~(\E i \in 1..Len(process.tags) : process.tags[i] \in {"b", "n", "p", "u"})
    THEN [err |-> Raise("CustomTypeError"), val |-> {}]
    ELSE IF ~of.exists THEN [err |-> Raise("AttributeError"), val |-> {}]
    ELSE LET matches_check == IF process.is_bool THEN OrphanMatch_args
                              ELSE {Str(t) : t \in Range(process.tags)}
         IN  [err |-> NoError,
              val |-> {o \in of.val : Str(o.match) \in matches_check}]

\* lines 213-230, for frames that are OrphanField objects
force_c_match(m, frames) ==
    [i \in 1..Len(m) |-> IF \E o \in frames : o.framenum = i - 1 THEN "c" ELSE m[i]]

\* apply with the field order set after the orphans are forced to 'c'.
ApplyPipeline_reordered == <<"orphans", "force_c", "field_order", "fieldmatch">>

\* The statements of apply in program order (lines 163, 165, 167, 168).
ApplyPipeline == <<"field_order", "orphans", "force_c", "fieldmatch">>

ApplyEntry == ApplyPipeline[1]

ApplyAfter(p) ==
    LET i == CHOOSE k \in 1..Len(ApplyPipeline) : ApplyPipeline[k] = p
    IN  IF i < Len(ApplyPipeline) THEN ApplyPipeline[i + 1] ELSE "rest"

\* lines 129-161: apply is called on the parsed model with a clip that has
\* one frame per match, for the first time or after an earlier call ended.
ApplyCall ==
    /\ pc \in {"parsed", "raised", "returned"}
    /\ Len(calls) < MaxCalls
    /\ orphan_handling' \in OrphanHandlingArgs
    /\ calls' = Append(calls, orphan_handling')
    /\ wclip' = [num_frames |-> Len(matches), field_based |-> PROGRESSIVE]
    /\ steps' = <<>>
    /\ orphan_proc' = {}
    /\ err' = NoError
    /\ pc' = ApplyEntry
    /\ UNCHANGED <<file, modelVars, fzVars, stepVars>>

\* line 163
ApplyFieldOrder ==
    /\ pc = "field_order"
    /\ wclip' = [wclip EXCEPT !.field_based = field_order]
    /\ steps' = Append(steps, "field_order")
    /\ pc' = ApplyAfter("field_order")
    /\ UNCHANGED <<file, err, modelVars, orphan_handling, orphan_proc, calls, fzVars, stepVars>>

\* line 165
ApplyGetOrphans ==
    /\ pc = "orphans"
    /\ LET r == get_orphans_to_process(orphan_handling, orphan_frames)
       IN  /\ orphan_proc' = r.val
           /\ err' = At(r.err, pc)
           /\ pc' = IF r.err = NoError THEN ApplyAfter("orphans") ELSE "raised"
    /\ UNCHANGED <<file, modelVars, orphan_handling, wclip, steps, calls, fzVars, stepVars>>

\* line 167: the matches of the model are overwritten in place.
ApplyForceC ==
    /\ pc = "force_c"
    /\ matches' = force_c_match(matches, orphan_proc)
    /\ steps' = Append(steps, "force_c")
    /\ pc' = IF matches' # <<>> THEN ApplyAfter("force_c") ELSE "rest"
    /\ UNCHANGED <<file, err, cycle, vfm_order, field_order, combed_frames,
                   decimations, sections, interlaced_fades, freeze_frames,
                   orphan_frames, orphan_handling, orphan_proc, wclip, calls, fzVars, stepVars>>

\* Inside class WobblyParsed a name self.__x is compiled to
\* self._WobblyParsed__x; the base class defines _apply_fieldmatches, so
\* the attribute that line 168 looks up does not exist.
MangledAttributeExists == FALSE

\* line 168
ApplyFieldMatches ==
    /\ pc = "fieldmatch"
    /\ IF MangledAttributeExists
       THEN /\ steps' = Append(steps, "fieldmatch")
            /\ pc' = "rest"
            /\ err' = err
       ELSE /\ steps' = steps
            /\ pc' = "raised"
            /\ err' = At(Raise("AttributeError"), pc)
    /\ UNCHANGED <<file, modelVars, orphan_handling, orphan_proc, wclip, calls, fzVars, stepVars>>

(***************************************************************************)
(* _WobblyProcessBase._apply_freezeframes                                  *)
(***************************************************************************)
\* A frame: its picture and the wobbly_freeze_* properties stamped on it
\* (<<>> when none, else <<start, end, replacement>>).
Frame(c) == [content |-> c, props |-> <<>>]

InRange(f, n) == f.start_frame <= n /\ n <= f.end_frame

\* std.FreezeFrames rejects frame numbers outside the clip and ranges that
\* overlap.
FreezeFramesRaises(clip, freezes) ==
    \/ \E f \in freezes :
          \/ f.start_frame < 0
          \/ f.end_frame >= Len(clip)
          \/ f.replacement < 0
          \/ f.replacement >= Len(clip)
    \/ \E f, g \in freezes : f # g /\ \E n \in 0..(Len(clip) - 1) : InRange(f, n) /\ InRange(g, n)

\* std.FreezeFrames(first, last, replacement): every frame of a range
\* becomes the replacement frame of the input.
FreezeFrames(clip, freezes) ==
    [i \in 1..Len(clip) |->
        IF \E f \in freezes : InRange(f, i - 1)
        THEN clip[(CHOOSE f \in freezes : InRange(f, i - 1)).replacement + 1]
        ELSE clip[i]]

\* std.SetFrameProps on every frame of a clip
SetFrameProps(clip, p) == [i \in 1..Len(clip) |-> [clip[i] EXCEPT !.props = p]]

\* lines 52-65: freeze_props, keyed by start frame
freeze_props(freezes) ==
    [s \in {f.start_frame : f \in freezes} |->
        LET f == CHOOSE g \in freezes : g.start_frame = s
        IN  <<f.start_frame, f.end_frame, f.replacement>>]

\* lines 72-73: the clip FrameEval takes frame n from
_set_props(n, clip, props) ==
    IF n \in DOMAIN props THEN SetFrameProps(clip, props[n]) ELSE clip

\* A FreezeFrames that copies the range starting at the replacement frame
\* instead of repeating the replacement frame.
_apply_freezeframes_rangecopy(clip, freezes) ==
    IF FreezeFramesRaises(clip, freezes)
    THEN [err |-> Raise("CustomValueError"), clip |-> <<>>]
    ELSE [err |-> NoError,
          clip |-> [i \in 1..Len(clip) |->
            IF \E f \in freezes : InRange(f, i - 1)
            THEN LET f == CHOOSE g \in freezes : InRange(g, i - 1)
                     src == f.replacement + (i - 1 - f.start_frame)
                 IN  clip[(IF src < Len(clip) THEN src ELSE Len(clip) - 1) + 1]
            ELSE clip[i]]]

\* A freeze whose replacement index is off by one.
_apply_freezeframes_offbyone(clip, freezes) ==
    IF FreezeFramesRaises(clip, freezes)
    THEN [err |-> Raise("CustomValueError"), clip |-> <<>>]
    ELSE [err |-> NoError,
          clip |-> [i \in 1..Len(clip) |->
            IF \E f \in freezes : InRange(f, i - 1)
            THEN LET f == CHOOSE g \in freezes : InRange(g, i - 1)
                     src == f.replacement + 1
                 IN  clip[(IF src < Len(clip) THEN src ELSE 0) + 1]
            ELSE clip[i]]]

\* lines 45-75: fclip is the frozen clip, but the clip bound into _set_props
\* by partial(_set_props, clip=clip) is the argument clip, and FrameEval
\* returns frame n of whatever clip _set_props returns.
_apply_freezeframes(clip, freezes) ==
    IF FreezeFramesRaises(clip, freezes)
    THEN [err |-> Raise("CustomValueError"), clip |-> <<>>]
    ELSE LET fclip == FreezeFrames(clip, freezes)
         IN  [err |-> NoError,
              clip |-> [i \in 1..Len(fclip) |->
                            _set_props(i - 1, clip, freeze_props(freezes))[i]]]

\* The FreezeFrame objects tried: start <= end (info.py line 267).
FreezeFrameObjects ==
    {f \in [start_frame : 0..(MaxFrames - 1), end_frame : 0..(MaxFrames - 1),
            replacement : 0..(MaxFrames - 1)] : ~StartEndRaises(f)}

\* The freeze-frame step on a clip of distinct frames.
FreezeOnce ==
    /\ fz_pc = "input"
    /\ LET r == _apply_freezeframes(fz_clip, fz_freezes)
       IN  /\ fz_once' = r.clip
           /\ fz_pc' = IF r.err = NoError THEN "once" ELSE "raised"
    /\ UNCHANGED <<file, pc, err, modelVars, applyVars, fz_clip, fz_freezes, fz_twice, stepVars>>

\* The freeze-frame step replayed on its own output.
FreezeTwice ==
    /\ fz_pc = "once"
    /\ LET r == _apply_freezeframes(fz_once, fz_freezes)
       IN  /\ fz_twice' = r.clip
           /\ fz_pc' = IF r.err = NoError THEN "twice" ELSE "raised"
    /\ UNCHANGED <<file, pc, err, modelVars, applyVars, fz_clip, fz_freezes, fz_once, stepVars>>

(***************************************************************************)
(* apply: the combed-marker step                                           *)
(***************************************************************************)
\* A frame: its picture and its named frame properties.
PropFrame(c) == [content |-> c, props |-> EmptyDict]

\* std.SetFrameProps(**kv): kv is written over the properties of every frame.
std_SetFrameProps(clip, kv) ==
    [i \in 1..Len(clip) |->
        [clip[i] EXCEPT !.props = kv @@ clip[i].props]]

\* vstools replace_ranges(clip_a, clip_b, frames): the listed frames are
\* taken from clip_b, all others from clip_a.
replace_ranges(clip_a, clip_b, frames) ==
    [i \in 1..Len(clip_a) |-> IF (i - 1) \in frames THEN clip_b[i] ELSE clip_a[i]]

\* base.py lines 115-122
_apply_combed_markers(clip, combed) ==
    replace_ranges(std_SetFrameProps(clip, "wobbly_combed" :> 0),
                   std_SetFrameProps(clip, "wobbly_combed" :> 1), combed)

\* wobbly.py lines 182-183: the step is skipped for an empty combed set, and
\* self.__apply_combed_markers is looked up under its mangled name.
ApplyCombedMarkers ==
    /\ pc = "combed"
    /\ IF combed_frames # {}
       THEN IF MangledAttributeExists
            THEN /\ st_out' = _apply_combed_markers(st_clip, combed_frames)
                 /\ pc' = "decimate"
                 /\ err' = err
            ELSE /\ st_out' = st_out
                 /\ pc' = "raised"
                 /\ err' = At(Raise("AttributeError"), pc)
       ELSE /\ st_out' = st_clip
            /\ pc' = "decimate"
            /\ err' = err
    /\ UNCHANGED <<file, modelVars, applyVars, fzVars, st_clip, tcVars, wbVars, fnVars>>

(***************************************************************************)
(* vfr.py: get_timecodes                                                   *)
(***************************************************************************)
Min(a, b) == IF a < b THEN a ELSE b

Max(a, b) == IF a > b THEN a ELSE b

RECURSIVE GCD(_, _)
GCD(a, b) == IF b = 0 THEN a ELSE GCD(b, a % b)

\* fractions.Fraction(n, d) for d > 0, in lowest terms: <<numerator, denominator>>
Fraction(n, d) ==
    LET g == GCD(Abs(n), d)
    IN  <<(IF n < 0 THEN 0 - (Abs(n) \div g) ELSE n \div g), d \div g>>

\* int(a / b): the quotient truncated towards zero
TruncDiv(a, b) ==
    IF (a >= 0) = (b > 0) THEN Abs(a) \div Abs(b) ELSE 0 - (Abs(a) \div Abs(b))

\* [x] * n
Rep(x, n) == [i \in 1..n |-> x]

\* l[start:stop] = new, for start, stop >= 0
slice_assign(l, start, stop, new) ==
    LET b == Min(start, Len(l))
        e == Max(b, Min(stop, Len(l)))
    IN  SubSeq(l, 1, b) \o new \o SubSeq(l, e + 1, Len(l))

\* d[key] = val on an insertion-ordered dict, kept as a sequence of items
dict_set(d, key, val) ==
    IF \E i \in 1..Len(d) : d[i].key = key
    THEN [i \in 1..Len(d) |-> IF d[i].key = key THEN [key |-> key, val |-> val] ELSE d[i]]
    ELSE Append(d, [key |-> key, val |-> val])

\* line 28
Denominator(den, clip) ==
    IF den # 0 THEN den
    ELSE IF clip.fps_den \notin {0, 1} THEN clip.fps_den
    ELSE 1001

\* lines 33-34: _norm of a rate written in the file, here in 1/1000 fps
_norm(xd, denominator) == Fraction((denominator * xd) \div 1000, denominator)

\* lines 38-49: the dict built from the range lines <<starts, ends, fps>>
RECURSIVE timecodes_d(_, _)
timecodes_d(lines, denominator) ==
    IF lines = <<>> THEN <<>>
    ELSE LET line == lines[Len(lines)]
         IN  dict_set(timecodes_d(SubSeq(lines, 1, Len(lines) - 1), denominator),
                      <<line[1], line[2] + 1>>, _norm(line[3], denominator))

\* lines 93-100, one item of the dict
range_step(norm_timecodes, item) ==
    LET start == Max(item.key[1], 0)
        end == item.key[2]
        grown == IF end > Len(norm_timecodes)
                 THEN norm_timecodes \o Rep(item.val, end - Len(norm_timecodes))
                 ELSE norm_timecodes
    IN  slice_assign(grown, start, end + 1, Rep(item.val, end - start))

RECURSIVE range_steps(_, _)
range_steps(norm_timecodes, items) ==
    IF items = <<>> THEN norm_timecodes
    ELSE range_steps(range_step(norm_timecodes, items[1]), SubSeq(items, 2, Len(items)))

\* lines 88-102; assume is <<>> for None
normalize_range_timecodes(timecodes, end, assume) ==
    range_steps(IF assume # <<>> /\ assume[1] # 0 THEN Rep(assume, end) ELSE <<>>,
                timecodes)

\* lines 53-57: the rates between consecutive timestamps (in ms)
v2_timecodes(timecodes_l, denominator) ==
    [i \in 1..(Len(timecodes_l) - 1) |->
        Fraction(TruncDiv(denominator * 1000, timecodes_l[i + 1] - timecodes_l[i]),
                 denominator)]

\* A length check that only rejects lists that are too short.
FramesLengthMismatch_shorter(n, num_frames) == n < num_frames

\* line 61
FramesLengthMismatch(n, num_frames) == n # num_frames

\* lines 21-67: err, the decoded norm_timecodes and the returned list
get_timecodes(clip, tfile, den) ==
    LET denominator == Denominator(den, clip)
        failed(kind) == [err |-> Raise(kind), norm |-> <<>>, val |-> <<>>]
        checked(norm) ==
            IF FramesLengthMismatch(Len(norm), clip.num_frames)
            THEN [err |-> Raise("FramesLengthError"), norm |-> norm, val |-> <<>>]
            ELSE [err |-> NoError, norm |-> norm, val |-> norm]
    IN  IF tfile.version = "v1"
        THEN checked(normalize_range_timecodes(
                        timecodes_d(tfile.ranges, denominator), clip.num_frames,
                        IF tfile.assume = 0 THEN <<>> ELSE _norm(tfile.assume, denominator)))
        ELSE IF tfile.version = "v2"
        THEN IF \E i \in 1..(Len(tfile.stamps) - 1) : tfile.stamps[i + 1] = tfile.stamps[i]
             THEN failed("ZeroDivisionError")
             ELSE checked(v2_timecodes(tfile.stamps, denominator))
        ELSE failed("CustomValueError")

GetTimecodes ==
    /\ tc_pc = "input"
    /\ LET r == get_timecodes(tc_clip, tc_file, tc_den)
       IN  /\ tc_norm' = r.norm
           /\ tc_out' = r.val
           /\ err' = r.err
           /\ tc_pc' = IF r.err = NoError THEN "returned" ELSE "raised"
    /\ UNCHANGED <<file, pc, modelVars, applyVars, fzVars, stVars,
                   tc_clip, tc_den, tc_file, wbVars, fnVars>>

\* The timecode files tried: rates 23.976 and 30 fps, timestamps in ms.
V1File(a, r) == [version |-> "v1", assume |-> a, ranges |-> r, stamps |-> <<>>]

V2File(t) == [version |-> "v2", assume |-> 0, ranges |-> <<>>, stamps |-> t]

TimecodeFiles ==
    {V1File(a, r) :
        a \in {0, 30000},
        r \in SeqsUpTo((0..(MaxFrames - 1)) \X (0..(MaxFrames - 1)) \X {23976},
                       MaxRanges)}
    \cup {V2File(t) : t \in SeqsUpTo({0, 40, 80}, MaxStamps)}
    \cup {[version |-> "v3", assume |-> 0, ranges |-> <<>>, stamps |-> <<>>]}

(***************************************************************************)
(* wibbly.py: Wibbly._render_metrics and Wibbly._write_wob_file            *)
(***************************************************************************)
\* The frame properties the metrics clip carries on one frame: the VFM
\* match index, _Combed, VDecimateDrop, Scenechange and fbAvg0 - ftAvg0.
MetricProps ==
    [VFMMatch : {1, 2}, _Combed : {0, 1}, VDecimateDrop : {0, 1},
     Scenechange : {0, 1}, fb_minus_ft : {0, 0 - 2}]

\* line 248
matches_map == <<"p", "c", "n", "b", "u">>

\* process(fades_thr=...), in the unit of fb_minus_ft
ftf_diff_thr == 1

\* lines 247-261: the empty lists
NoMetrics ==
    [matches |-> <<>>, scenechanges |-> <<>>, combed_frames |-> <<>>,
     vdecimate_drop |-> <<>>, ftf_diff_0 |-> <<>>]

\* lines 265-311: _cb(n, f) for the props VFMMatch, _Combed, FtfDiff0,
\* VDecimateDrop and Scenechange
_cb(m, n, f) ==
    [matches |-> Append(m.matches, matches_map[f.VFMMatch + 1]),
     combed_frames |-> IF f._Combed # 0 THEN Append(m.combed_frames, n)
                       ELSE m.combed_frames,
     ftf_diff_0 |-> IF Abs(f.fb_minus_ft) > ftf_diff_thr
                    THEN Append(m.ftf_diff_0, <<n, Abs(f.fb_minus_ft)>>)
                    ELSE m.ftf_diff_0,
     vdecimate_drop |-> Append(m.vdecimate_drop, f.VDecimateDrop),
     scenechanges |-> IF f.Scenechange # 0 THEN Append(m.scenechanges, n)
                      ELSE m.scenechanges]

\* line 313: clip_async_render hands every frame of the clip to _cb once;
\* the order in which the host engine delivers the frames is not fixed by
\* this code.
RenderFrame ==
    /\ wb_pc = "render"
    /\ \E n \in (0..(Len(wb_clip) - 1)) \ Range(wb_n) :
          /\ wb_metrics' = _cb(wb_metrics, n, wb_clip[n + 1])
          /\ wb_n' = Append(wb_n, n)
    /\ UNCHANGED <<file, pc, err, modelVars, applyVars, fzVars, stVars, tcVars,
                   wb_clip, wb_file, wb_pc, fnVars>>

\* lines 363-372; a section dict is kept as its start
_to_sections(scenechanges) == IF scenechanges = <<>> THEN <<0>> ELSE scenechanges

\* lines 384-390
_get_fades(fades) == [i \in 1..Len(fades) |-> FadeRecord(fades[i][1], fades[i][2])]

\* lines 374-382, for an input file that is neither .dgi nor .d2v
_guess_idx(in_file) == "lsmas.LWLibavSource"

\* lines 336-356: out_dict (the keys no parser statement reads are left out,
\* but for the versions)
out_dict(in_file, metrics) ==
    ("wobbly version" :> 6) @@
    ("project format version" :> 2) @@
    ("input file" :> in_file) @@
    ("matches" :> metrics.matches) @@
    ("original matches" :> metrics.matches) @@
    ("combed frames" :> metrics.combed_frames) @@
    ("decimated frames" :> metrics.vdecimate_drop) @@
    ("sections" :> _to_sections(metrics.scenechanges)) @@
    ("source filter" :> _guess_idx(in_file)) @@
    ("interlaced fades" :> _get_fades(metrics.ftf_diff_0))

\* lines 139-141: the render is over, the file is written
WriteWobFile ==
    /\ wb_pc = "render"
    /\ Len(wb_n) = Len(wb_clip)
    /\ wb_file' = out_dict("a.mkv", wb_metrics)
    /\ wb_pc' = "written"
    /\ UNCHANGED <<file, pc, err, modelVars, applyVars, fzVars, stVars, tcVars,
                   wb_clip, wb_n, wb_metrics, fnVars>>

\* wobbly.py lines 84-88: WobblyParsed(out_file) loads the file just written
LoadWobFile ==
    /\ wb_pc = "written"
    /\ file' = wb_file
    /\ pc' = "init.work_clip"
    /\ wb_pc' = "loaded"
    /\ UNCHANGED <<err, modelVars, applyVars, fzVars, stVars, tcVars,
                   wb_clip, wb_n, wb_metrics, wb_file, fnVars>>

(***************************************************************************)
(* apply: the frame-rate marking step                                      *)
(***************************************************************************)
\* wobbly.py line 94: the frame rate of a file without 'input frame rate'
DefaultFrameRate == <<30000, 1001>>

\* math.ceil(a / b) for a >= 0, b > 0
Ceil(a, b) == (a + b - 1) \div b

\* The elements of a finite set of integers in increasing order.
RECURSIVE SortedSeq(_)
SortedSeq(S) ==
    IF S = {} THEN <<>>
    ELSE LET m == CHOOSE x \in S : \A y \in S : y <= x
         IN  Append(SortedSeq(S \ {m}), m)

\* lines 337-340: framerates, largest first
framerates(num, cyc) == [k \in 1..cyc |-> TruncDiv(num * (cyc + 1 - k), cyc)]

\* lines 342-349: fps_clips
fps_clips(clip, rate, cyc) ==
    [k \in 1..cyc |->
        LET fps == framerates(rate[1], cyc)[k]
        IN  std_SetFrameProps(clip,
                ("wobbly_cycle_fps" :> fps \div 1000) @@
                ("_DurationNum" :> fps) @@
                ("_DurationDen" :> rate[2]))]

\* lines 351-356: split_decimations, as the number of decimations of cycle i
split_decimations(dec, cyc) ==
    LET last == CHOOSE x \in Range(dec) : \A y \in Range(dec) : y <= x
    IN  [i \in 1..Ceil(last + 1, cyc) |->
            Cardinality({j \in ((i - 1) * cyc)..(i * cyc - 1) : j \in Range(dec)})]

\* lines 360-363: indices, with sd_idx = ceil(n / cycle)
indices(dec, cyc, num_frames) ==
    LET split == split_decimations(dec, cyc)
    IN  [i \in 1..num_frames |->
            LET sd_idx == Ceil(i - 1, cyc)
            IN  IF sd_idx >= Len(split) THEN 0 ELSE split[sd_idx + 1]]

\* lines 334-365: FrameEval takes frame n from fps_clips[indices[n]]; an
\* index past the end of fps_clips raises IndexError when the frame is
\* requested.
mark_framerates(clip, dec, rate, cyc) ==
    LET idx == indices(dec, cyc, Len(clip))
        clips == fps_clips(clip, rate, cyc)
    IN  IF \E i \in 1..Len(clip) : idx[i] >= Len(clips)
        THEN [err |-> Raise("IndexError"), clip |-> <<>>]
        ELSE [err |-> NoError,
              clip |-> [i \in 1..Len(clip) |-> clips[idx[i] + 1][i]]]

\* lines 173-174
ApplyMarkFramerates ==
    /\ pc = "framerates"
    /\ IF decimations # <<>>
       THEN LET r == mark_framerates(st_clip, decimations, DefaultFrameRate, cycle)
            IN  /\ st_out' = r.clip
                /\ err' = At(r.err, pc)
                /\ pc' = IF r.err = NoError THEN "fades" ELSE "raised"
       ELSE /\ st_out' = st_clip
            /\ err' = err
            /\ pc' = "fades"
    /\ UNCHANGED <<file, modelVars, applyVars, fzVars, st_clip, tcVars, wbVars, fnVars>>

(***************************************************************************)
(* _WobblyProcessBase._deinterlace_orphans (base.py)                       *)
(***************************************************************************)
\* info.py lines 352-356: OrphanField.deinterlace_order
deinterlace_order(o) == IF o.match \in {"n", "p"} THEN TFF ELSE BFF

\* vstools FieldBased.is_tff
is_tff(fb) == fb = TFF

\* core.resize.Bob(clip, tff=...): every frame gives two frames, one built
\* from each field, in the temporal order of the fields: top first when tff.
\* Such a frame also names the tff argument of the call and the field it
\* was built from.
Bob(clip, tff) ==
    [k \in 1..(2 * Len(clip)) |->
        LET src == clip[(k + 1) \div 2]
            first == (k % 2) = 1
        IN  [content |-> src.content,
             props |-> src.props,
             bob |-> [tff |-> tff,
                      field |-> IF first = tff THEN "top" ELSE "bottom"]]]

\* clip[start::2], start being a bool used as 0 / 1
EveryOther(clip, start) ==
    LET s == IF start THEN 1 ELSE 0
    IN  [i \in 1..((Len(clip) - s + 1) \div 2) |-> clip[s + 2 * (i - 1) + 1]]

\* lines 94-96: one list per match of Match.__args__ other than 'c'
frames_by_match_keys == {k[2] : k \in {a \in Match_args : a[2] # "c"}}

\* lines 98-102: the frame numbers of the orphans, by match
frames_by_match(orphans) ==
    [k \in frames_by_match_keys |-> {o.framenum : o \in {p \in orphans : p.match = k}}]

\* lines 77-113; clip_order is field_order = FieldBased.from_video(clip)
_deinterlace_orphans(clip, orphans, clip_order) ==
    LET deint_np == EveryOther(Bob(clip, ~is_tff(clip_order)), is_tff(clip_order))
        deint_bu == EveryOther(Bob(clip, is_tff(clip_order)), is_tff(clip_order))
        fbm == frames_by_match(orphans)
        out_np == replace_ranges(clip, deint_np, fbm["n"] \cup fbm["p"])
        out_bu == replace_ranges(out_np, deint_bu, fbm["b"] \cup fbm["u"])
    IN  IF \E o \in orphans : o.match \notin frames_by_match_keys
        THEN [err |-> Raise("CustomKeyError"), clip |-> <<>>]
        ELSE [err |-> NoError,
              clip |-> replace_ranges(
                           out_bu,
                           std_SetFrameProps(out_bu, "wobbly_orphan_deinterlace" :> 1),
                           UNION {fbm[k] : k \in frames_by_match_keys})]

\* _deinterlace_orphans(clip, orphans) is called with the default
\* deinterlacing function; FieldBased.from_video(clip) (line 86) reads the
\* field order of the clip.
DeinterlaceOrphans ==
    /\ pc = "deinterlace_orphans"
    /\ LET r == _deinterlace_orphans(st_clip, orphan_proc, wclip.field_based)
       IN  /\ st_out' = r.clip
           /\ err' = At(r.err, pc)
           /\ pc' = IF r.err = NoError THEN "deinterlaced" ELSE "raised"
    /\ UNCHANGED <<file, modelVars, applyVars, fzVars, st_clip, tcVars, wbVars, fnVars>>

(***************************************************************************)
(* check_patterns (utils.py) and check_ivtc_pattern (helpers.py)           *)
(***************************************************************************)
\* ivtc.py lines 53-63: IVTCycles.length, the number of patterns of a cycle
IVTCycles_length == 5

\* ivtc.py line 66: the assert of IVTCycles.decimate
decimate_accepts(pattern) == 0 <= pattern /\ pattern < IVTCycles_length

\* helpers.py line 15: from .funcs import sivtc. funcs.py defines
\* telop_resample, FixInterlacedFades and vinverse and imports nothing from
\* ivtc.py, so the name cannot be imported.
SivtcImportable == FALSE

\* helpers.py lines 12-34; combed[p] holds the frames of sivtc(clip, p)[::4]
\* that IsCombed flags.
check_ivtc_pattern(combed, pattern) ==
    IF ~SivtcImportable THEN [err |-> Raise("ImportError"), val |-> FALSE]
    ELSE IF ~decimate_accepts(pattern) THEN [err |-> Raise("AssertionError"), val |-> FALSE]
    ELSE [err |-> NoError, val |-> combed[pattern] = {}]

\* utils.py line 127: [int(n) for n in range(0, 4)]
PatternsTried == <<0, 1, 2, 3>>

\* utils.py lines 125-140: one pass of the loop over the patterns, with the
\* code after the loop when the pass is the last one.
CheckPattern ==
    /\ cp_pc = "loop"
    /\ LET n == PatternsTried[cp_n]
           check == check_ivtc_pattern(cp_combed, n)
       IN  IF check.err # NoError
           THEN /\ err' = At(check.err, "check_patterns")
                /\ cp_pc' = "raised"
                /\ UNCHANGED <<cp_n, cp_pattern>>
           ELSE IF check.val
           THEN /\ cp_pattern' = n
                /\ cp_pc' = "returned"
                /\ UNCHANGED <<err, cp_n>>
           ELSE IF cp_n < Len(PatternsTried)
           THEN /\ cp_n' = cp_n + 1
                /\ UNCHANGED <<err, cp_pattern, cp_pc>>
           ELSE /\ err' = At(Raise("StopIteration"), "check_patterns")
                /\ cp_pc' = "raised"
                /\ UNCHANGED <<cp_n, cp_pattern>>
    /\ UNCHANGED <<file, pc, modelVars, applyVars, fzVars, stVars, tcVars, wbVars,
                   cp_combed, dbVars, ntVars>>

(***************************************************************************)
(* deblend (blending.py)                                                   *)
(***************************************************************************)
\* range(a, b, step) as a set
py_range(a, b, step) == {n \in a..(b - 1) : (n - a) % step = 0}

\* line 41
blends_a(start, num_frames) == py_range(start + 2, num_frames - 1, 5)

\* line 42
blends_b(start, num_frames) == py_range(start + 3, num_frames - 1, 5)

\* Frame n of the input clip.
ClipFrame(n) == [n |-> n, src |-> <<n>>, rep |-> 0]

\* lines 51-53: the frame built by expr_cd from c, cd, da and a, repaired
\* with mode rep when rep is set (0 stands for None).
DeblFrame(n, rep) == [n |-> n, src |-> <<n - 1, n, n + 1, n + 2>>, rep |-> rep]

\* clip[i] raises IndexError for an index past the last frame.
GetItemRaises(i, num_frames) == i < 0 \/ i >= num_frames

\* lines 46-54: the inner deblend(n, clip, rep), called by FrameEval when
\* frame n is requested
deblend_n(n, num_frames, start, rep) ==
    IF (n % 5) \in {0, 1, 4}
    THEN [err |-> NoError, frame |-> ClipFrame(n)]
    ELSE IF n \in blends_a(start, num_frames)
    THEN IF \E i \in {n - 1, n, n + 1, n + 2} : GetItemRaises(i, num_frames)
         THEN [err |-> Raise("IndexError"), frame |-> ClipFrame(n)]
         ELSE [err |-> NoError, frame |-> DeblFrame(n, rep)]
    ELSE [err |-> NoError, frame |-> ClipFrame(n)]

\* lines 56-57: the frames of the clip deblend returns are requested in
\* turn; with decimate the frames of blends_b are deleted and never
\* requested. db_n is the next frame of the FrameEval clip.
DeblendFrame ==
    /\ db_pc = "render"
    /\ db_n < db_num_frames
    /\ IF db_decimate /\ db_n \in blends_b(db_start, db_num_frames)
       THEN /\ db_out' = db_out
            /\ err' = err
            /\ db_pc' = IF db_n + 1 = db_num_frames THEN "done" ELSE "render"
       ELSE LET r == deblend_n(db_n, db_num_frames, db_start, db_rep)
            IN  /\ db_out' = IF r.err = NoError THEN Append(db_out, r.frame) ELSE db_out
                /\ err' = At(r.err, "deblend")
                /\ db_pc' = IF r.err # NoError THEN "raised"
                            ELSE IF db_n + 1 = db_num_frames THEN "done" ELSE "render"
    /\ db_n' = db_n + 1
    /\ UNCHANGED <<file, pc, modelVars, applyVars, fzVars, stVars, tcVars, wbVars,
                   cpVars, db_num_frames, db_start, db_rep, db_decimate, ntVars>>

(***************************************************************************)
(* normalize_timecodes (vfr.py)                                            *)
(***************************************************************************)
\* lines 76-83: the loop, from index i on; last_fps is the pair (start, fps)
RECURSIVE normalize_loop(_, _, _, _)
normalize_loop(timecodes, i, last_fps, timecodes_ranges) ==
    IF i > Len(timecodes) - 1 THEN timecodes_ranges
    ELSE LET fps == timecodes[i + 1]
             last_i == Len(timecodes) - 1
         IN  IF fps # last_fps[2]
             THEN normalize_loop(timecodes, i + 1, <<i, fps>>,
                                 dict_set(timecodes_ranges, <<last_fps[1], i - 1>>, last_fps[2]))
             ELSE IF i = last_i
             THEN normalize_loop(timecodes, i + 1, last_fps,
                                 dict_set(timecodes_ranges, <<last_fps[1], i + 1>>, fps))
             ELSE normalize_loop(timecodes, i + 1, last_fps, timecodes_ranges)

\* lines 70-85, for a non-empty list
normalize_timecodes(timecodes) ==
    normalize_loop(timecodes, 1, <<0, timecodes[1]>>, <<>>)

\* normalize_timecodes(t) is called on the per-frame rates of a clip
NormalizeTimecodes ==
    /\ nt_pc = "input"
    /\ nt_ranges' = normalize_timecodes(nt_t)
    /\ nt_pc' = "ranges"
    /\ UNCHANGED <<file, pc, err, modelVars, applyVars, fzVars, stVars, tcVars, wbVars,
                   cpVars, dbVars, nt_t, nt_back>>

\* normalize_range_timecodes(ranges, end) is called on the ranges, with
\* end the length of the list and no assume
NormalizeRangeTimecodes ==
    /\ nt_pc = "ranges"
    /\ nt_back' = normalize_range_timecodes(nt_ranges, Len(nt_t), <<>>)
    /\ nt_pc' = "back"
    /\ UNCHANGED <<file, pc, err, modelVars, applyVars, fzVars, stVars, tcVars, wbVars,
                   cpVars, dbVars, nt_t, nt_ranges>>

ModelUnset ==
    /\ err = NoError
    /\ cycle = 0
    /\ vfm_order = TRUE
    /\ field_order = PROGRESSIVE
    /\ matches = <<>>
    /\ combed_frames = {}
    /\ decimations = <<>>
    /\ sections = {}
    /\ interlaced_fades = {}
    /\ freeze_frames = {}
    /\ orphan_frames = [exists |-> FALSE, val |-> {}]
    /\ orphan_handling = BoolArg(FALSE)
    /\ orphan_proc = {}
    /\ wclip = [num_frames |-> 0, field_based |-> PROGRESSIVE]
    /\ steps = <<>>
    /\ calls = <<>>

\* No freeze-frame replay is under way.
FreezeIdle ==
    /\ fz_clip = <<>>
    /\ fz_freezes = {}
    /\ fz_once = <<>>
    /\ fz_twice = <<>>
    /\ fz_pc = "idle"

\* No marking step is being replayed.
StepIdle ==
    /\ st_clip = <<>>
    /\ st_out = <<>>

\* No get_timecodes call is under way.
TimecodesIdle ==
    /\ tc_clip = [num_frames |-> 0, fps_den |-> 0]
    /\ tc_den = 0
    /\ tc_file = V2File(<<>>)
    /\ tc_norm = <<>>
    /\ tc_out = <<>>
    /\ tc_pc = "idle"

\* No metrics run is under way.
WibblyIdle ==
    /\ wb_clip = <<>>
    /\ wb_n = <<>>
    /\ wb_metrics = NoMetrics
    /\ wb_file = EmptyDict
    /\ wb_pc = "idle"

\* No check_patterns call is under way.
PatternsIdle ==
    /\ cp_combed = <<>>
    /\ cp_n = 1
    /\ cp_pattern = 0 - 1
    /\ cp_pc = "idle"

\* No deblended clip is being rendered.
DeblendIdle ==
    /\ db_num_frames = 0
    /\ db_start = 0
    /\ db_rep = 0
    /\ db_decimate = FALSE
    /\ db_n = 0
    /\ db_out = <<>>
    /\ db_pc = "idle"

\* No timecode list is being converted.
RoundTripIdle ==
    /\ nt_t = <<>>
    /\ nt_ranges = <<>>
    /\ nt_back = <<>>
    /\ nt_pc = "idle"

FunctionsIdle == PatternsIdle /\ DeblendIdle /\ RoundTripIdle

Init ==
    /\ file \in Files
    /\ pc = "init.work_clip"
    /\ ModelUnset
    /\ FreezeIdle
    /\ StepIdle
    /\ TimecodesIdle
    /\ WibblyIdle
    /\ FunctionsIdle

Next ==
    \/ ParseWorkClip
    \/ ParseParams
    \/ ParseFieldOrder
    \/ ParseMatches
    \/ ParseSections
    \/ ParseInterlacedFades
    \/ ParseFreezeFrames
    \/ ParseOrphanFrames
    \/ ParseRemoveIfades
    \/ ApplyCall
    \/ ApplyFieldOrder
    \/ ApplyGetOrphans
    \/ ApplyForceC
    \/ ApplyFieldMatches

Spec == Init /\ [][Next]_vars

InitFreeze ==
    /\ file = BaseFile
    /\ pc = "idle"
    /\ ModelUnset
    /\ fz_clip \in {[i \in 1..n |-> Frame(i - 1)] : n \in 1..MaxFrames}
    /\ fz_freezes \in SetsUpTo(FreezeFrameObjects, MaxFreezes)
    /\ fz_once = <<>>
    /\ fz_twice = <<>>
    /\ fz_pc = "input"
    /\ StepIdle
    /\ TimecodesIdle
    /\ WibblyIdle
    /\ FunctionsIdle

NextFreeze ==
    \/ FreezeOnce
    \/ FreezeTwice

SpecFreeze == InitFreeze /\ [][NextFreeze]_vars

\* A model parsed from a file without sections, fades or freezes, inside
\* apply; the match sequence, the combed frames and the decimations are left
\* to the step that is replayed.
ReplayedModel ==
    /\ file = BaseFile
    /\ err = NoError
    /\ cycle = 5
    /\ vfm_order = FALSE
    /\ field_order = BFF
    /\ sections = {}
    /\ interlaced_fades = {}
    /\ freeze_frames = {}
    /\ orphan_frames = [exists |-> FALSE, val |-> {}]
    /\ orphan_handling = BoolArg(FALSE)
    /\ orphan_proc = {}
    /\ steps = <<>>
    /\ calls = <<BoolArg(FALSE)>>
    /\ FreezeIdle

\* The clips handed to a marking step: up to MaxFrames frames, no
\* properties set yet.
StepClips == UNION {[1..n -> {PropFrame(c) : c \in {0, 1}}] : n \in 1..MaxFrames}

InitCombed ==
    /\ ReplayedModel
    /\ pc = "combed"
    /\ st_clip \in StepClips
    /\ st_out = <<>>
    /\ matches = [i \in 1..Len(st_clip) |-> "c"]
    /\ wclip = [num_frames |-> Len(st_clip), field_based |-> field_order]
    /\ combed_frames \in SetsUpTo(0..(Len(st_clip) - 1), MaxFrames)
    /\ decimations = <<>>
    /\ TimecodesIdle
    /\ WibblyIdle
    /\ FunctionsIdle

NextCombed == ApplyCombedMarkers

SpecCombed == InitCombed /\ [][NextCombed]_vars

\* The clips handed to the frame-rate step: frame n shows picture n.
RateClips == {[i \in 1..n |-> PropFrame(i - 1)] : n \in 1..MaxRateFrames}

\* The decimated frames tried: up to MaxDecimated frames of the first
\* cycles, and a whole cycle.
DecimationSets ==
    SetsUpTo(0..(MaxRateFrames - 1), MaxDecimated) \cup {0..4, 5..9}

InitFramerates ==
    /\ ReplayedModel
    /\ pc = "framerates"
    /\ st_clip \in RateClips
    /\ st_out = <<>>
    /\ matches = [i \in 1..Len(st_clip) |-> "c"]
    /\ wclip = [num_frames |-> Len(st_clip), field_based |-> field_order]
    /\ combed_frames = {}
    /\ decimations \in {SortedSeq(d) : d \in DecimationSets}
    /\ TimecodesIdle
    /\ WibblyIdle
    /\ FunctionsIdle

NextFramerates == ApplyMarkFramerates

SpecFramerates == InitFramerates /\ [][NextFramerates]_vars

\* info.py OrphanField: the objects __post_init__ accepts, for a clip of n
\* frames.
OrphanFields(n) ==
    {[framenum |-> f, match |-> m] : f \in 0..(n - 1), m \in {"b", "n", "p", "u"}}

\* A frame has one match, so no two orphans share a frame.
OrphanSets(n) ==
    {S \in SetsUpTo(OrphanFields(n), MaxOrphans) :
        \A a \in S : \A b \in S : a.framenum = b.framenum => a = b}

InitOrphans ==
    /\ file = BaseFile
    /\ err = NoError
    /\ cycle = 5
    /\ vfm_order = FALSE
    /\ field_order \in {BFF, TFF}
    /\ sections = {}
    /\ interlaced_fades = {}
    /\ freeze_frames = {}
    /\ orphan_frames = [exists |-> FALSE, val |-> {}]
    /\ orphan_handling = BoolArg(TRUE)
    /\ steps = <<>>
    /\ calls = <<>>
    /\ FreezeIdle
    /\ pc = "deinterlace_orphans"
    /\ st_clip \in StepClips
    /\ st_out = <<>>
    /\ matches = [i \in 1..Len(st_clip) |-> "c"]
    /\ wclip = [num_frames |-> Len(st_clip), field_based |-> field_order]
    /\ orphan_proc \in OrphanSets(Len(st_clip))
    /\ combed_frames = {}
    /\ decimations = <<>>
    /\ TimecodesIdle
    /\ WibblyIdle
    /\ FunctionsIdle

NextOrphans == DeinterlaceOrphans

SpecOrphans == InitOrphans /\ [][NextOrphans]_vars

InitTimecodes ==
    /\ file = BaseFile
    /\ pc = "idle"
    /\ ModelUnset
    /\ FreezeIdle
    /\ StepIdle
    /\ tc_clip \in [num_frames : 1..MaxFrames, fps_den : {1, 1001}]
    /\ tc_den \in {0, 1000}
    /\ tc_file \in TimecodeFiles
    /\ tc_norm = <<>>
    /\ tc_out = <<>>
    /\ tc_pc = "input"
    /\ WibblyIdle
    /\ FunctionsIdle

NextTimecodes == GetTimecodes

SpecTimecodes == InitTimecodes /\ [][NextTimecodes]_vars

InitWibbly ==
    /\ file = EmptyDict
    /\ pc = "idle"
    /\ ModelUnset
    /\ FreezeIdle
    /\ StepIdle
    /\ TimecodesIdle
    /\ wb_clip \in UNION {[1..n -> MetricProps] : n \in 1..MaxRender}
    /\ wb_n = <<>>
    /\ wb_metrics = NoMetrics
    /\ wb_file = EmptyDict
    /\ wb_pc = "render"
    /\ FunctionsIdle

NextWibbly ==
    \/ RenderFrame
    \/ WriteWobFile
    \/ LoadWobFile
    \/ ParseWorkClip
    \/ ParseParams
    \/ ParseFieldOrder
    \/ ParseMatches
    \/ ParseSections

SpecWibbly == InitWibbly /\ [][NextWibbly]_vars

\* The checks of each pattern: any set of the frames checked may be combed.
InitPatterns ==
    /\ file = BaseFile
    /\ pc = "idle"
    /\ ModelUnset
    /\ FreezeIdle
    /\ StepIdle
    /\ TimecodesIdle
    /\ WibblyIdle
    /\ cp_combed \in [0..(IVTCycles_length - 1) -> SUBSET (0..(MaxChecked - 1))]
    /\ cp_n = 1
    /\ cp_pattern = 0 - 1
    /\ cp_pc = "loop"
    /\ DeblendIdle
    /\ RoundTripIdle

NextPatterns == CheckPattern

SpecPatterns == InitPatterns /\ [][NextPatterns]_vars

InitDeblend ==
    /\ file = BaseFile
    /\ pc = "idle"
    /\ ModelUnset
    /\ FreezeIdle
    /\ StepIdle
    /\ TimecodesIdle
    /\ WibblyIdle
    /\ PatternsIdle
    /\ db_num_frames \in 1..MaxDeblend
    /\ db_start \in 0..MaxStart
    /\ db_rep \in {0, 1}
    /\ db_decimate \in BOOLEAN
    /\ db_n = 0
    /\ db_out = <<>>
    /\ db_pc = "render"
    /\ RoundTripIdle

NextDeblend == DeblendFrame

SpecDeblend == InitDeblend /\ [][NextDeblend]_vars

\* The frame rates a clip carries.
Rates == {Fraction(24000, 1001), Fraction(30000, 1001)}

InitRoundTrip ==
    /\ file = BaseFile
    /\ pc = "idle"
    /\ ModelUnset
    /\ FreezeIdle
    /\ StepIdle
    /\ TimecodesIdle
    /\ WibblyIdle
    /\ PatternsIdle
    /\ DeblendIdle
    /\ nt_t \in SeqsUpTo(Rates, MaxTimecodes) \ {<<>>}
    /\ nt_ranges = <<>>
    /\ nt_back = <<>>
    /\ nt_pc = "input"

NextRoundTrip ==
    \/ NormalizeTimecodes
    \/ NormalizeRangeTimecodes

SpecRoundTrip == InitRoundTrip /\ [][NextRoundTrip]_vars

(***************************************************************************)
(* Properties                                                              *)
(***************************************************************************)
InitOrder == <<"init.work_clip", "init.params", "init.field_order",
               "init.matches", "init.sections", "init.interlaced_fades",
               "init.freeze_frames", "init.orphan_frames", "init.remove_ifades">>

InitPos(p) == CHOOSE k \in 1..Len(InitOrder) : InitOrder[k] = p

\* __init__ has ended, by returning the model or by raising.
ParseEnded == pc \notin Range(InitOrder)

\* __init__ returned the model.
ParseReturned == ParseEnded /\ pc # "failed"

\* The statement at position p of __init__ has run, to its end or to a raise.
InitStatementRan(p) ==
    IF pc = "failed" THEN InitPos(err.at) >= InitPos(p)
    ELSE pc \in Range(InitOrder) => InitPos(pc) > InitPos(p)

ApplyEnded == pc \in {"raised", "returned"}

Contents(clip) == [i \in 1..Len(clip) |-> clip[i].content]

FileSections == IF "sections" \in DOMAIN file THEN file["sections"] ELSE <<0>>

FileCycle ==
    IF "vdecimate parameters" \in DOMAIN file
       /\ "cycle" \in DOMAIN file["vdecimate parameters"]
    THEN file["vdecimate parameters"]["cycle"]
    ELSE 5

\* C1: whenever apply ends on a model of N matches whose decimated frames
\* all lie in [0, N) (here with orphan handling off), it has returned a clip
\* of exactly N - |D| frames.
C1_FrameCount ==
    (/\ ApplyEnded
     /\ Range(decimations) \subseteq 0..(Len(matches) - 1)
     /\ orphan_handling = BoolArg(FALSE))
    => /\ pc = "returned"
       /\ wclip.num_frames = Len(matches) - Cardinality(Range(decimations))

\* The order of the pipeline steps.
StepOrder == <<"field_order", "force_c", "fieldmatch", "freeze", "framerates",
               "fades", "deinterlace_orphans", "combed", "decimate",
               "progressive">>

StepRank(st) == CHOOSE k \in 1..Len(StepOrder) : StepOrder[k] = st

C3_FrozenContent ==
    fz_pc \in {"once", "twice"} =>
        \A n \in 0..(Len(fz_clip) - 1) :
            /\ \A f \in fz_freezes :
                   InRange(f, n) => fz_once[n + 1].content = fz_clip[f.replacement + 1].content
            /\ (~\E f \in fz_freezes : InRange(f, n))
                   => fz_once[n + 1].content = fz_clip[n + 1].content

\* C4: replaying the freeze-frame step on its own output gives the same
\* frame contents as the first pass.
C4_FreezeIdempotent ==
    fz_pc = "twice" => Contents(fz_twice) = Contents(fz_once)

\* One FreezeFrame whose replacement lies outside its range, replayed twice.
C4_Witness ==
    /\ fz_pc = "twice"
    /\ Cardinality(fz_freezes) = 1
    /\ \E f \in fz_freezes : ~InRange(f, f.replacement) /\ f.start_frame < f.end_frame

SelfFreeze(k) == [start_frame |-> k, end_frame |-> k, replacement |-> k]

\* C5: a self-freeze (k, k, k) leaves the content of every frame unchanged.
C5_SelfFreezeNoOp ==
    (fz_pc \in {"once", "twice"} /\ \E k \in 0..(MaxFrames - 1) : fz_freezes = {SelfFreeze(k)})
    => Contents(fz_once) = Contents(fz_clip)

\* A self-freeze applied to a clip that has other frames as well.
C5_Witness ==
    /\ fz_pc = "once"
    /\ Len(fz_clip) > 1
    /\ fz_freezes = {SelfFreeze(0)}

StrictlySorted(seq) == \A i, j \in 1..Len(seq) : i < j => seq[i] < seq[j]

\* C6: for sorted section starts s_0 < ... < s_k and N > s_k matches the
\* parser builds the sections [s_i, s_(i+1) - 1], the last one ending at N - 1.
C6_SectionRanges ==
    (/\ InitStatementRan("init.sections")
     /\ FileSections # <<>>
     /\ StrictlySorted(FileSections)
     /\ Len(matches) > FileSections[Len(FileSections)])
    => /\ ~(pc = "failed" /\ err.at = "init.sections")
       /\ sections =
            {[start_frame |-> FileSections[i],
              end_frame |-> IF i < Len(FileSections) THEN FileSections[i + 1] - 1
                            ELSE Len(matches) - 1] : i \in 1..Len(FileSections)}

\* C7: in every parsed model each frame 0..N-1 lies in exactly one section.
C7_SectionsPartition ==
    ParseReturned =>
        \A n \in 0..(Len(matches) - 1) :
            Cardinality({sec \in sections : InRange(sec, n)}) = 1

LegalTags == {"b", "c", "n", "p", "u"}

\* C8: a (non-empty) match sequence with characters outside {b, c, n, p, u} ends the
\* parse with InvalidMatchError reporting exactly those characters, and a
\* sequence of legal tags never raises InvalidMatchError.
C8_InvalidMatch ==
    (InitStatementRan("init.matches") /\ matches # <<>>) =>
        IF Range(matches) \ LegalTags # {}
        THEN /\ pc = "failed"
             /\ err.kind = "InvalidMatchError"
             /\ err.chars = Range(matches) \ LegalTags
        ELSE err.kind # "InvalidMatchError"

\* The source filter named by the file, if any, is installed.
SourceFilterInstalled ==
    "source filter" \in DOMAIN file => file["source filter"] = "lsmas.LWLibavSource"

WorkClipAccepted ==
    /\ "input file" \in DOMAIN file
    /\ "source filter" \in DOMAIN file
    /\ file["source filter"] = "lsmas.LWLibavSource"

NamedRequiredKeys == {"input file", "source filter", "matches", "sections",
                      "frozen frames", "interlaced fades"}

\* C10 as stated: a file (otherwise acceptable) that lacks one of the named
\* keys ends in a MissingValue error naming a key it lacks.
C10_EveryKeyRequired ==
    (ParseEnded /\ SourceFilterInstalled /\ FileCycle = 5
       /\ NamedRequiredKeys \ DOMAIN file # {})
    => /\ pc = "failed"
       /\ err.kind = "CustomValueError"
       /\ err.key \in NamedRequiredKeys \ DOMAIN file

\* C10: a file without 'input file' ends in a MissingValue error naming
\* 'input file'; one with 'input file' but without 'source filter' ends in
\* one naming 'source filter'; no model is returned in either case, and no
\* other key is ever named by a MissingValue error.
C10_MissingKey ==
    ParseEnded =>
        /\ "input file" \notin DOMAIN file
             => pc = "failed" /\ err.kind = "CustomValueError" /\ err.key = "input file"
        /\ ("input file" \in DOMAIN file /\ "source filter" \notin DOMAIN file)
             => pc = "failed" /\ err.kind = "CustomValueError" /\ err.key = "source filter"
        /\ err.key \in {"", "input file", "source filter"}

\* A file that has 'input file' but lacks 'source filter'.
C10_Witness ==
    /\ pc = "failed"
    /\ "input file" \in DOMAIN file
    /\ "source filter" \notin DOMAIN file
    /\ err.key = "source filter"

FileHasOrder ==
    "vfm parameters" \in DOMAIN file /\ "order" \in DOMAIN file["vfm parameters"]

FileOrder == file["vfm parameters"]["order"]

\* C11: once line 109-112 has run on a file that gives a VFM order, a
\* progressive field order derived from that order has ended the parse with
\* UnsupportedFieldBasedError, and otherwise the stored field_order is
\* interlaced and is the field order the file's order value denotes.
C11_FieldOrder ==
    (InitStatementRan("init.field_order") /\ FileHasOrder) =>
        IF ~is_inter(FieldBased_from_int(FileOrder))
        THEN pc = "failed" /\ err.kind = "UnsupportedFieldBasedError"
        ELSE /\ err.at # "init.field_order"
             /\ is_inter(field_order)
             /\ field_order = FieldBased_from_int(FileOrder)

FileCombed ==
    IF "combed frames" \in DOMAIN file THEN Range(file["combed frames"]) ELSE {}

FadeFrames == {i.framenum : i \in interlaced_fades}

\* C12: in every parsed model no framenum of an InterlacedFade is in
\* combed_frames, and combed_frames holds exactly the combed frames of the
\* file that are not fade frames.
C12_CombedExcludesFades ==
    ParseReturned =>
        /\ combed_frames \cap FadeFrames = {}
        /\ combed_frames = FileCombed \ FadeFrames

\* A parsed file whose fade frame was listed as combed next to another
\* combed frame.
C12_Witness ==
    /\ pc = "parsed"
    /\ FadeFrames = {1}
    /\ FileCombed = {0, 1}
    /\ combed_frames = {0}

\* C13: after the combed-marker step of apply the clip that goes on to the
\* decimation step has, on every frame n, the property wobbly_combed with
\* value 1 if n is in the combed set and 0 otherwise (also for an empty
\* combed set), and the content of frame n is unchanged.
C13_CombedMarkers ==
    pc # "combed" =>
        /\ pc = "decimate"
        /\ Len(st_out) = Len(st_clip)
        /\ \A n \in 0..(Len(st_clip) - 1) :
              /\ "wobbly_combed" \in DOMAIN st_out[n + 1].props
              /\ st_out[n + 1].props["wobbly_combed"] = (IF n \in combed_frames THEN 1 ELSE 0)
              /\ st_out[n + 1].content = st_clip[n + 1].content

OrphanTags == {"b", "n", "p", "u"}

\* The argument is a bool, or an orphan tag or sequence of orphan tags.
ValidOrphanArg(a) == a.is_bool \/ Range(a.tags) \subseteq OrphanTags

\* Line 165 of apply has run, to its end or to a raise.
OrphansStatementRan ==
    \/ pc \in {"force_c", "fieldmatch", "rest", "returned"}
    \/ pc = "raised" /\ err.at \in {"orphans", "fieldmatch"}

\* The orphan fields the argument a asks for.
SelectedOrphans(a) ==
    IF a.is_bool
    THEN (IF a.b THEN orphan_frames.val ELSE {})
    ELSE {o \in orphan_frames.val : o.match \in Range(a.tags)}

FileMatches == IF "matches" \in DOMAIN file THEN file["matches"] ELSE <<>>

\* C14: once line 165 has run with a bool, an orphan tag or a sequence of
\* orphan tags, it has not raised and orphan_proc holds no orphan for False,
\* every orphan field of the model for True, and for tags T exactly the
\* orphan fields whose match is in T.
C14_OrphanSelection ==
    (OrphansStatementRan /\ ValidOrphanArg(orphan_handling)) =>
        /\ err.at # "orphans"
        /\ orphan_proc = SelectedOrphans(orphan_handling)

\* C15: whenever apply ends after a call with a bool, an orphan tag or a
\* sequence of orphan tags, it has handed field matching a sequence of the
\* parsed length whose entry is 'c' at every selected orphan frame and the
\* parsed tag everywhere else.
C15_ForcedMatches ==
    (ApplyEnded /\ ValidOrphanArg(orphan_handling)) =>
        /\ \E k \in 1..Len(steps) : steps[k] = "force_c"
        /\ Len(matches) = Len(FileMatches)
        /\ \A i \in 1..Len(matches) :
              matches[i] =
                IF \E o \in SelectedOrphans(orphan_handling) : o.framenum = i - 1
                THEN "c" ELSE FileMatches[i]

\* C16: once line 165 has run with an argument that is not a bool and has
\* an element outside {b, n, p, u}, apply has raised CustomTypeError there.
C16_OrphanTypeError ==
    (/\ OrphansStatementRan
     /\ ~orphan_handling.is_bool
     /\ ~(Range(orphan_handling.tags) \subseteq OrphanTags))
    => /\ pc = "raised"
       /\ err.at = "orphans"
       /\ err.kind = "CustomTypeError"

\* The timecode file was decoded: neither the version check nor the
\* arithmetic of the decoding raised.
TimecodesDecoded ==
    /\ tc_pc \in {"returned", "raised"}
    /\ tc_file.version \in {"v1", "v2"}
    /\ err.kind \notin {"ZeroDivisionError", "CustomValueError"}

\* C17: get_timecodes returns only a list with one entry per frame of the
\* clip, the decoded one; when the sequence decoded from a v1 or v2 file has
\* another length it raises FramesLengthError and returns nothing.
C17_TimecodesLength ==
    /\ tc_pc = "returned" => Len(tc_out) = tc_clip.num_frames /\ tc_out = tc_norm
    /\ (TimecodesDecoded /\ Len(tc_norm) # tc_clip.num_frames)
          => tc_pc = "raised" /\ err.kind = "FramesLengthError" /\ tc_out = <<>>

\* A v2 file that decodes to more entries than the clip has frames.
C17_Witness ==
    /\ tc_pc = "raised"
    /\ tc_file.version = "v2"
    /\ Len(tc_norm) > tc_clip.num_frames
    /\ err.kind = "FramesLengthError"

\* The frames the metrics clip flagged as dropped by VDecimate.
DroppedFrames == {n \in 0..(Len(wb_clip) - 1) : wb_clip[n + 1].VDecimateDrop = 1}

\* C18: once the parser has read the decimations (line 116) of the file the
\* metrics driver wrote, the decimation set is the set of the frames whose
\* VDecimateDrop flag was set.
C18_DecimationsRoundTrip ==
    (wb_pc = "loaded" /\ InitStatementRan("init.matches"))
        => Range(decimations) = DroppedFrames

\* C19: once line 122 has run, every record of the file's 'interlaced fades'
\* with a frame f >= 0 and a field difference d has given an InterlacedFade
\* with framenum f and field_difference |d|.
C19_FadeMagnitude ==
    (InitStatementRan("init.interlaced_fades") /\ "interlaced fades" \in DOMAIN file) =>
        \A i \in 1..Len(file["interlaced fades"]) :
            LET rec == file["interlaced fades"][i]
            IN  (/\ DOMAIN rec = {"frame", "field difference"}
                 /\ rec["frame"] >= 0)
                => \E fade \in interlaced_fades :
                      /\ fade.framenum = rec["frame"]
                      /\ fade.field_difference = Abs(rec["field difference"])

\* The number of decimated frames inside the cycle of frame n.
DecimatedInCycleOf(n) ==
    Cardinality({j \in Range(decimations) : j \div cycle = n \div cycle})

\* C20: after the frame-rate step on a model with decimations (none of
\* whose cycles is decimated whole), every frame n carries the frame-rate
\* numerator base_num * (5 - d) / 5, d being the number of decimated frames
\* in the cycle of n.
C20_CycleFramerate ==
    (/\ pc # "framerates"
     /\ decimations # <<>>
     /\ \A n \in 0..(Len(st_clip) - 1) : DecimatedInCycleOf(n) < cycle)
    => /\ pc = "fades"
       /\ Len(st_out) = Len(st_clip)
       /\ \A n \in 0..(Len(st_clip) - 1) :
             st_out[n + 1].props["_DurationNum"]
                = (DefaultFrameRate[1] * (5 - DecimatedInCycleOf(n))) \div 5

\* C21: after the frame-rate step on a model with decimations, the step has
\* not raised IndexError and the index computed for every frame n of the
\* clip lies in 0..cycle-1, the bounds of the list of frame-rate clips.
C21_FramerateIndexInBounds ==
    (pc # "framerates" /\ decimations # <<>>)
    => /\ err.kind # "IndexError"
       /\ \A n \in 0..(Len(st_clip) - 1) :
             indices(decimations, cycle, Len(st_clip))[n + 1] \in 0..(cycle - 1)

\* The OrphanFields that lines 271-283 name for the sections and matches of
\* the parsed model.
ExpectedOrphans ==
    {[framenum |-> s.start_frame, match |-> matches[s.start_frame + 1]] :
        s \in {t \in sections : /\ t.start_frame < Len(matches)
                                /\ matches[t.start_frame + 1] \in {"n", "p"}}}
    \cup
    {[framenum |-> s.end_frame, match |-> matches[s.end_frame + 1]] :
        s \in {t \in sections : /\ t.end_frame < Len(matches)
                                /\ matches[t.end_frame + 1] \in {"b", "u"}}}

\* C22: after parsing, the model has an orphan set, and it holds exactly an
\* OrphanField (start, m) for each section whose first frame has a match m in
\* {n, p} and an OrphanField (end, m) for each section whose last frame has a
\* match m in {b, u}; every member has a match in {b, n, p, u} and a frame
\* index in [0, N).
C22_OrphanSet ==
    ParseReturned =>
        /\ orphan_frames.exists
        /\ orphan_frames.val = ExpectedOrphans
        /\ \A o \in orphan_frames.val :
              /\ o.match \in OrphanTags
              /\ o.framenum \in 0..(Len(matches) - 1)

\* C23: after the orphan deinterlacing step, every frame of a selected orphan
\* is the frame deinterlaced from the same source frame with the field order
\* the orphan derives from its match (top field first for n and p, bottom
\* field first for b and u), whatever the field order of the clip; every
\* other frame is the frame of the input clip.
C23_OrphanDeinterlaceOrder ==
    pc \notin {"deinterlace_orphans"} =>
        /\ pc = "deinterlaced"
        /\ Len(st_out) = Len(st_clip)
        /\ \A i \in 1..Len(st_clip) :
              IF \E o \in orphan_proc : o.framenum = i - 1
              THEN LET o == CHOOSE p \in orphan_proc : p.framenum = i - 1
                   IN  /\ "bob" \in DOMAIN st_out[i]
                       /\ st_out[i].content = st_clip[i].content
                       /\ st_out[i].bob.tff = is_tff(deinterlace_order(o))
              ELSE st_out[i] = st_clip[i]

FileFadeFrames ==
    IF "interlaced fades" \in DOMAIN file
    THEN {rec["frame"] : rec \in {r \in Range(file["interlaced fades"]) : "frame" \in DOMAIN r}}
    ELSE {}

\* The section starts, combed frames and fade frames of the file that lie
\* past the end of its match sequence.
OutOfRangeIndices ==
    {n \in Range(FileSections) \cup FileCombed \cup FileFadeFrames : n >= Len(FileMatches)}

\* C24: when the project file names a section start, combed frame or fade
\* frame past the end of its match sequence and lines 90-123 of __init__
\* have built the sections, fades and freezes of the model, then __init__ or
\* apply, once ended, has raised CustomIndexError.
C24_OutOfRangeRejected ==
    (/\ OutOfRangeIndices # {}
     /\ InitStatementRan("init.freeze_frames")
     /\ ~(pc = "failed" /\ InitPos(err.at) <= InitPos("init.freeze_frames"))
     /\ (pc = "failed" \/ ApplyEnded))
    => err.kind = "CustomIndexError"

\* C25: whenever an apply call with orphan handling disabled has ended after
\* an earlier call on the same model with orphan handling enabled, it has
\* field-matched (line 168), and the match sequence of the model is the one
\* read from the project file.
C25_MatchesSurviveApply ==
    (/\ ApplyEnded
     /\ Len(calls) >= 2
     /\ \E k \in 1..(Len(calls) - 1) : calls[k] \in {BoolArg(TRUE), TagsArg(<<"n">>)}
     /\ calls[Len(calls)] = BoolArg(FALSE))
    => /\ "fieldmatch" \in Range(steps)
       /\ matches = FileMatches

\* C26: once the render is over, whatever the order in which the frames were
\* handed to the callback, the matches and the drop flags collected have one
\* entry per frame of the clip, and entry i is the value read from frame i.
C26_MetricsByFrame ==
    wb_pc \in {"written", "loaded"} =>
        /\ Len(wb_metrics.matches) = Len(wb_clip)
        /\ Len(wb_metrics.vdecimate_drop) = Len(wb_clip)
        /\ \A i \in 1..Len(wb_clip) :
              /\ wb_metrics.matches[i] = matches_map[wb_clip[i].VFMMatch + 1]
              /\ wb_metrics.vdecimate_drop[i] = wb_clip[i].VDecimateDrop

\* The patterns whose check finds no combed frame.
CleanPatterns == {p \in 0..(IVTCycles_length - 1) : cp_combed[p] = {}}

\* C27: once check_patterns has ended, it has returned the least of the
\* patterns 0..4 whose check finds no combing when there is one, and has
\* raised the StopIteration error when every pattern results in combing.
C27_FirstCleanPattern ==
    cp_pc \in {"returned", "raised"} =>
        IF CleanPatterns # {}
        THEN /\ cp_pc = "returned"
             /\ cp_pattern \in CleanPatterns
             /\ \A p \in CleanPatterns : cp_pattern <= p
        ELSE /\ cp_pc = "raised"
             /\ err.kind = "StopIteration"

\* The frames start + 2 + 5k and start + 3 + 5k below N - 1.
BlendedFrames == {n \in 0..(db_num_frames - 2) : n >= db_start + 2 /\ (n - db_start) % 5 = 2}

DuplicateFrames == {n \in 0..(db_num_frames - 2) : n >= db_start + 3 /\ (n - db_start) % 5 = 3}

\* The frame the pattern that begins at start asks for at position n.
PatternFrame(n) == IF n \in BlendedFrames THEN DeblFrame(n, db_rep) ELSE ClipFrame(n)

\* C28: once every frame of the clip deblend returned has been produced, the
\* frames start + 2 + 5k (below N - 1) are the deblended frames built from
\* n-1, n, n+1, n+2, every other frame is the frame of the input, and with
\* decimate exactly the frames start + 3 + 5k (below N - 1) are missing.
C28_DeblendPattern ==
    db_pc = "done" =>
        db_out = SelectSeq([i \in 1..db_num_frames |-> PatternFrame(i - 1)],
                           LAMBDA f : ~(db_decimate /\ f.n \in DuplicateFrames))

\* C29: no request of a frame of deblend's clip raises IndexError: every
\* frame that is deblended has its four source frames n-1 .. n+2 inside
\* [0, N).
C29_DeblendReadsInRange ==
    /\ db_pc # "raised"
    /\ \A i \in 1..Len(db_out) :
          \A k \in 1..Len(db_out[i].src) : db_out[i].src[k] \in 0..(db_num_frames - 1)

\* The items of the ranges whose inclusive range holds frame n.
RangesOf(n) == {i \in 1..Len(nt_ranges) : nt_ranges[i].key[1] <= n /\ n <= nt_ranges[i].key[2]}

\* C30: for a non-empty list t of N rates, the ranges normalize_timecodes(t)
\* gives hold every frame 0..N-1 in exactly one range, with the rate of that
\* frame, and normalize_range_timecodes of those ranges with end = N is t.
C30_TimecodesRoundTrip ==
    /\ nt_pc \in {"ranges", "back"} =>
          \A n \in 0..(Len(nt_t) - 1) :
              /\ Cardinality(RangesOf(n)) = 1
              /\ \A i \in RangesOf(n) : nt_ranges[i].val = nt_t[n + 1]
    /\ nt_pc = "back" => nt_back = nt_t
====
